---- MODULE Spec2Model ----
(***************************************************************************)
(* Model of the YouTube transcript gateway (twilson63/transcriber).        *)
(*                                                                         *)
(* GET /api/transcript/:videoId runs the chain                             *)
(*   authenticateApiKey -> rateLimiter -> route handler                    *)
(*   -> TranscriptService.getTranscript -> global error middleware.        *)
(* Every await in the code is a point where other requests interleave, so  *)
(* each action below is one synchronous stretch of one request.            *)
(*                                                                         *)
(* Strings that the code only compares or copies are TLA+ strings.         *)
(* Strings the code inspects (videoId, caption text) are sequences of      *)
(* one-character strings; Error messages, which the error middleware       *)
(* searches with includes(), are sequences of words.                       *)
(***************************************************************************)
EXTENDS Integers, Sequences, FiniteSets, TLC

\* ------------------------------------------------------------------ bounds
AuthReqs == 2         \* requests issued in one behaviour of Spec
LimiterReqs == 3      \* ... of SpecLimiter
FetchReqs == 1        \* ... of SpecFetch
RouteReqs == 2        \* ... of SpecRoutes
NumTokens == 2        \* distinct values randomBytes(8) is drawn from
Step == 15000         \* clock granularity, ms
MaxTime == 30000      \* the clock stops here, ms
MaxSegs == 2          \* segs of one event in the generated documents

Max2(a, b) == IF a >= b THEN a ELSE b
NumReqs == Max2(Max2(AuthReqs, RouteReqs), Max2(LimiterReqs, FetchReqs))
Reqs == 1..NumReqs
Tokens == 1..NumTokens

\* ------------------------------------------------------- program constants
maxRequests_two == 1 + 1
maxRequests == 1
windowMs == 30 * 1000
message == "Rate limit exceeded. Please try again later."
statusCode == 429
execTimeout == 30000

\* ------------------------------------------------------------------ values
None == "<none>"          \* undefined: header absent, env variable unset

\* values of process.env.API_KEY
EnvValues == {None, "", "key-A"}

\* values of the X-API-Key header
HeaderValues == {None, "", "key-A", "key-B"}

\* JavaScript truthiness of an optional string
Truthy(s) == s # None /\ s # ""

Lower == {"a","b","c","d","e","f","g","h","i","j","k","l","m",
          "n","o","p","q","r","s","t","u","v","w","x","y","z"}
Upper == {"A","B","C","D","E","F","G","H","I","J","K","L","M",
          "N","O","P","Q","R","S","T","U","V","W","X","Y","Z"}
Digit == {"0","1","2","3","4","5","6","7","8","9"}

\* \s of a JavaScript regular expression, as far as the inputs reach
WhiteSpace == {" ", "\n", "\t"}


\* ---------------------------------------------------------------- videoId
\* the inputs of :videoId, as Express hands them to the route
WellFormedId == <<"d","Q","w","4","w","9","W","g","X","c","Q">>

VideoIds ==
    { WellFormedId,
      <<"t","e","s","t","1","2","3">>,
      <<"d","Q","w","4","w","9","W","g","X","c","!">>,
      <<" ">> }

\* /^[a-zA-Z0-9_-]{11}$/.test(videoId)
IsValidVideoId_anyLength(v) ==
    \A i \in 1..Len(v) : v[i] \in Lower \cup Upper \cup Digit \cup {"_", "-"}

IsValidVideoId(v) ==
    /\ Len(v) = 11
    /\ \A i \in 1..Len(v) : v[i] \in Lower \cup Upper \cup Digit \cup {"_", "-"}

\* String.prototype.trim
RECURSIVE TrimLeft(_)
TrimLeft(s) ==
    IF s = <<>> THEN <<>>
    ELSE IF Head(s) \in WhiteSpace THEN TrimLeft(Tail(s)) ELSE s

RECURSIVE TrimRight(_)
TrimRight(s) ==
    IF s = <<>> THEN <<>>
    ELSE IF s[Len(s)] \in WhiteSpace THEN TrimRight(SubSeq(s, 1, Len(s) - 1))
    ELSE s

Trim(s) == TrimRight(TrimLeft(s))

\* ---------------------------------------------------------- Error messages
\* String.prototype.includes on a message split into words
Includes(msg, needle) ==
    \E i \in 1..(Len(msg) - Len(needle) + 1) :
        SubSeq(msg, i, i + Len(needle) - 1) = needle

MsgNoTranscript == <<"No", "transcript", "available">>
MsgInvalidId == <<"Invalid", "video", "ID", "format">>
MsgCommandFailed == <<"Command", "failed", ":", "yt-dlp">>
MsgENOENT == <<"ENOENT", ":", "no", "such", "file", "or", "directory">>
MsgSyntaxError == <<"Unexpected", "token">>
MsgTypeError == <<"Cannot", "read", "properties", "of", "null">>
MsgEPERM == <<"EPERM", ":", "operation", "not", "permitted">>

\* messages of the Error execAsync rejects with when the command exits
\* non-zero: the command line, then whatever the tool printed
ExecFailMsgs ==
    { MsgCommandFailed,
      MsgCommandFailed \o <<"ERROR", ":", "Subtitles", "are", "disabled">>,
      MsgCommandFailed \o <<"ERROR", ":", "No", "subtitles">>,
      MsgCommandFailed \o <<"ERROR", ":", "connect", "ETIMEDOUT">> }


\* ------------------------------------------------------- caption artifacts
\* what the external command may leave in transcript-<token>.en.json3:
\* text that is not JSON, the JSON value null, or a JSON3Transcript whose
\* events (if present) hold segs (if present) of utf8 texts (if present)
Malformed == [kind |-> "malformed", events |-> None]
JsonNull == [kind |-> "null", events |-> None]
DocNoEvents == [kind |-> "doc", events |-> None]
DocBlank ==
    [kind |-> "doc",
     events |-> << [segs |-> << <<" ">>, <<>>, None >>], [segs |-> None] >>]
DocHello ==
    [kind |-> "doc",
     events |-> << [segs |-> << <<"H","i">>, <<" ">> >>],
                   [segs |-> << <<"a","\n","b">> >>] >>]

DocSplit ==
    [kind |-> "doc",
     events |-> << [segs |-> << <<"H","e">>, <<"y">> >>] >>]

Artifacts == {Malformed, JsonNull, DocNoEvents, DocBlank, DocHello, DocSplit}

\* every JSON3Transcript of at most two events, each with at most MaxSegs
\* segs whose utf8 is empty, a word, or a line break
RECURSIVE SeqsOfLen(_, _)
SeqsOfLen(S, k) ==
    IF k = 0 THEN {<<>>}
    ELSE {Append(q, x) : q \in SeqsOfLen(S, k - 1), x \in S}

SeqsUpTo(S, n) == UNION {SeqsOfLen(S, k) : k \in 0..n}
Utf8Choices == {<<>>, <<"a">>, <<"\n">>}
EventChoices == {[segs |-> s] : s \in SeqsUpTo(Utf8Choices, MaxSegs)}
GeneratedDocs ==
    {[kind |-> "doc", events |-> e] : e \in SeqsUpTo(EventChoices, 2)}

\* for (const seg of event.segs) if (seg.utf8) textParts.push(seg.utf8)
RECURSIVE SegTexts(_)
SegTexts(segs) ==
    IF segs = <<>> THEN <<>>
    ELSE (IF Head(segs) # None /\ Head(segs) # <<>>
          THEN <<Head(segs)>> ELSE <<>>) \o SegTexts(Tail(segs))

\* for (const event of events) if (event.segs) ...
RECURSIVE TextParts(_)
TextParts(events) ==
    IF events = <<>> THEN <<>>
    ELSE (IF Head(events).segs # None
          THEN SegTexts(Head(events).segs) ELSE <<>>) \o TextParts(Tail(events))

\* textParts.join(' ')
Join_noSeparator(parts) ==
    LET cat[i \in 0..Len(parts)] ==
            IF i = 0 THEN <<>> ELSE cat[i - 1] \o parts[i]
    IN  cat[Len(parts)]

RECURSIVE Join(_)
Join(parts) ==
    IF parts = <<>> THEN <<>>
    ELSE IF Len(parts) = 1 THEN parts[1]
    ELSE parts[1] \o <<" ">> \o Join(Tail(parts))

\* .replace(/\s+/g, ' ')
RECURSIVE CollapseWs(_)
CollapseWs(s) ==
    IF s = <<>> THEN <<>>
    ELSE IF Head(s) \in WhiteSpace
         THEN <<" ">> \o CollapseWs(TrimLeft(Tail(s)))
         ELSE <<Head(s)>> \o CollapseWs(Tail(s))

\* the text of subtitleData (an object), lines 75-88
ExtractText_noTrim(doc) ==
    LET events == IF doc.events = None THEN <<>> ELSE doc.events
    IN  CollapseWs(Join(TextParts(events)))

ExtractText(doc) ==
    LET events == IF doc.events = None THEN <<>> ELSE doc.events
    IN  Trim(CollapseWs(Join(TextParts(events))))

\* if (!text)
IsEmptyText_never(text) == FALSE

IsEmptyText(text) == text = <<>>

\* ------------------------------------------------------ metadata on stdout
\* what --print-json leaves on stdout: nothing the regular expression
\* matches, a match that JSON.parse rejects, or the video's info object
Stdouts == {"nomatch", "unparsable", "info"}
InfoTitle == "Sample Video Title"
InfoDuration == 180

DefaultTitle(videoId) == <<"YouTube Video ">> \o videoId

VideoTitle_noDefault(stdout, videoId) ==
    IF stdout = "info" THEN <<InfoTitle>> ELSE <<>>

VideoTitle(stdout, videoId) ==
    IF stdout = "info" THEN <<InfoTitle>> ELSE DefaultTitle(videoId)

VideoDuration(stdout) == IF stdout = "info" THEN InfoDuration ELSE 0

\* ------------------------------------------------------------- responses
\* a response not sent yet; a field the handler did not set holds NoText
\* (body text, title header) or -1 (Retry-After, duration header)
NoText == <<None>>
NoRes == [status |-> 0, error |-> None, text |-> NoText, retryAfter |-> -1,
          title |-> NoText, duration |-> -1]

ErrorRes(status, error) == [NoRes EXCEPT !.status = status, !.error = error]

\* the route's answer to a blank videoId
BadRequest_echo(videoId) == ErrorRes(400, videoId[1])

BadRequest(videoId) == ErrorRes(400, "Video ID is required")

\* GET /health and GET /api/agent
HealthRes == [NoRes EXCEPT !.status = 200, !.text = <<"{\"status\":\"healthy\"}">>]
AgentRes == [NoRes EXCEPT !.status = 200, !.text = <<"# YouTube Transcript API - Agent Instructions">>]

\* the 404 handler for undefined routes
NotFoundRes == ErrorRes(404, "Route not found")

\* global error handling middleware
ErrorHandler(msg) ==
    IF msg = MsgNoTranscript THEN ErrorRes(404, "No transcript available")
    ELSE IF Includes(msg, <<"timeout">>) \/ Includes(msg, <<"ETIMEDOUT">>)
         THEN ErrorRes(504, "Request timeout")
    ELSE ErrorRes(500, "Internal server error")

\* the Error thrown out of getTranscript's catch block
CatchMessage_keepTimeout(msg) ==
    IF Includes(msg, <<"ETIMEDOUT">>) THEN msg ELSE MsgNoTranscript

CatchMessage_rethrow(msg) ==
    IF \/ Includes(msg, <<"Subtitles", "are", "disabled">>)
       \/ Includes(msg, <<"No", "subtitles">>)
       \/ Includes(msg, <<"ENOENT">>)
    THEN MsgNoTranscript
    ELSE msg

CatchMessage(msg) ==
    IF \/ Includes(msg, <<"Subtitles", "are", "disabled">>)
       \/ Includes(msg, <<"No", "subtitles">>)
       \/ Includes(msg, <<"ENOENT">>)
    THEN MsgNoTranscript
    ELSE MsgNoTranscript

\* -------------------------------------------------------- admission limiter
CeilDiv(a, b) == (a + b - 1) \div b

\* the bucket of a request
keyGenerator(apiKey) == IF apiKey # None THEN apiKey ELSE "unknown"

Keys == (HeaderValues \ {None}) \cup {"unknown"}

NoClient == [totalHits |-> 0, resetTime |-> 0]

\* the default in-memory store's increment: a client that is new, or whose
\* window has run out, starts a window at t; every call counts one hit
Increment_sliding(st, key, t) ==
    LET c == IF st[key].resetTime <= t
             THEN [totalHits |-> 0, resetTime |-> t + windowMs]
             ELSE [st[key] EXCEPT !.resetTime = t + windowMs]
    IN  [st EXCEPT ![key] = [c EXCEPT !.totalHits = @ + 1]]

Increment(st, key, t) ==
    LET c == IF st[key].resetTime <= t
             THEN [totalHits |-> 0, resetTime |-> t + windowMs]
             ELSE st[key]
    IN  [st EXCEPT ![key] = [c EXCEPT !.totalHits = @ + 1]]

\* skipSuccessfulRequests / skipFailedRequests of rateLimiterOptions
skipSuccessfulRequests == FALSE
skipFailedRequests_on == TRUE

skipFailedRequests == FALSE

\* what the limiter does with a request's hit once its response is sent:
\* a skipped request's hit is taken back from its client
Settle(st, key, status) ==
    IF /\ \/ skipFailedRequests /\ status >= 400
          \/ skipSuccessfulRequests /\ status < 400
       /\ st[key].totalHits > 0
    THEN [st EXCEPT ![key].totalHits = @ - 1]
    ELSE st

\* the response of a request over the limit
handler_ms(res) ==
    [res EXCEPT !.status = statusCode, !.retryAfter = windowMs,
                !.error = message]

handler(res) ==
    LET retryAfter == CeilDiv(windowMs, 1000)
    IN  [res EXCEPT !.status = statusCode, !.retryAfter = retryAfter,
                    !.error = message]


\* ------------------------------------------------------------- file system
NoFile == [kind |-> "absent", events |-> None]

\* fs.unlink(path).catch(() => {}): ok = FALSE is a removal that fails
Unlink_wrongPath(fs, token, ok) == fs

Unlink(fs, token, ok) ==
    IF ok /\ fs[token] # NoFile THEN [fs EXCEPT ![token] = NoFile] ELSE fs

\* how an unlink attempt ended (a missing file is an error that is ignored
\* and leaves nothing to remove)
Removal(ok) == IF ok THEN "done" ELSE "failed"

\* await unlink(subtitleFile).catch(() => {}): how the awaited promise settles
AwaitUnlink_noCatch(ok) == IF ok THEN "resolved" ELSE "rejected"

AwaitUnlink(ok) == "resolved"

\* ------------------------------------------------------------------- state
VARIABLES
    env,        \* the inputs the environment draws from (fixed by Init)
    API_KEY,    \* process.env.API_KEY
    now,        \* Date.now(), ms
    pc,         \* where each request is
    req,        \* each request's X-API-Key header and :videoId
    store,      \* the limiter's clients: key -> hits and window end
    rl,         \* what store.increment returned to each request
    tempId,     \* each request's randomBytes token
    files,      \* the transcript-<token>.en.json3 files in os.tmpdir()
    proc,       \* each request's subprocess
    err,        \* the Error travelling inside getTranscript
    out,        \* text, title and duration getTranscript has computed
    res,        \* the response sent
    hist        \* history: what happened to each request

vars == <<env, API_KEY, now, pc, req, store, rl, tempId, files, proc, err, out,
          res, hist>>

NoProc == [state |-> "none", start |-> 0, wrote |-> FALSE]
NoOut == [text |-> NoText, title |-> NoText, duration |-> 0]
NoHist == [authed |-> FALSE, admitted |-> FALSE, denied |-> FALSE,
           incAt |-> 0, overlap |-> FALSE, execs |-> 0, cause |-> "none",
           removed |-> "none", doc |-> NoFile, stdout |-> "none"]

InitWith(e) ==
    /\ env = e
    /\ API_KEY \in e.apiKeys
    /\ now = 0
    /\ pc = [r \in Reqs |-> "idle"]
    /\ req = [r \in Reqs |-> [path |-> None, apiKey |-> None, videoId |-> <<>>]]
    /\ store = [k \in Keys |-> NoClient]
    /\ rl = [r \in Reqs |-> NoClient]
    /\ tempId = [r \in Reqs |-> 0]
    /\ files = [t \in Tokens |-> NoFile]
    /\ proc = [r \in Reqs |-> NoProc]
    /\ err = [r \in Reqs |-> <<>>]
    /\ out = [r \in Reqs |-> NoOut]
    /\ res = [r \in Reqs |-> NoRes]
    /\ hist = [r \in Reqs |-> NoHist]

\* the clock advances, but not past a fetch whose timer is due; it stops at
\* MaxTime, or where env.drain is set, once no command is being waited for
Tick ==
    /\ \/ now + Step <= MaxTime
       \/ env.drain /\ \E r \in Reqs : proc[r].state = "running"
    /\ \A r \in Reqs :
          proc[r].state = "running" => now - proc[r].start < execTimeout
    /\ now' = now + Step
    /\ UNCHANGED <<env, API_KEY, pc, req, store, rl, tempId, files, proc, err, out,
                   res, hist>>

\* the middleware chain of GET /api/transcript/:videoId
Chain_limitFirst == <<"limit", "auth", "route">>
Chain_routeFirst == <<"route", "auth", "limit">>
Chain_noLimit == <<"auth", "route">>

Chain == <<"auth", "limit", "route">>

\* next(): the stage after one that let the request through
NextStage(stage) ==
    LET i == CHOOSE n \in 1..Len(Chain) : Chain[n] = stage
    IN  Chain[i + 1]

\* the verdict of authenticateApiKey on a header, given process.env.API_KEY
AuthVerdict_missingPasses(validApiKey, apiKey) ==
    IF ~Truthy(validApiKey) THEN ErrorRes(500, "Internal server error")
    ELSE IF ~Truthy(apiKey) THEN NoRes
    ELSE IF apiKey # validApiKey
         THEN ErrorRes(401, "Invalid or missing API key")
    ELSE NoRes

AuthVerdict_keyFirst(validApiKey, apiKey) ==
    IF ~Truthy(apiKey) THEN ErrorRes(401, "Invalid or missing API key")
    ELSE IF ~Truthy(validApiKey) THEN ErrorRes(500, "Internal server error")
    ELSE IF apiKey # validApiKey
         THEN ErrorRes(401, "Invalid or missing API key")
    ELSE NoRes

AuthVerdict(validApiKey, apiKey) ==
    IF ~Truthy(validApiKey) THEN ErrorRes(500, "Internal server error")
    ELSE IF ~Truthy(apiKey) THEN ErrorRes(401, "Invalid or missing API key")
    ELSE IF apiKey # validApiKey
         THEN ErrorRes(401, "Invalid or missing API key")
    ELSE NoRes

\* the paths requests ask for
TranscriptPath == "/api/transcript/:videoId"
Paths == {"/health", "/api/agent", TranscriptPath, "/other"}

\* the routes that run the middleware chain
Protected_all(path) == path \in {"/health", "/api/agent", TranscriptPath}

Protected(path) == path = TranscriptPath

\* a request arrives and Express dispatches it: /health and /api/agent are
\* answered at once, the transcript route enters its chain, anything else
\* falls to the 404 handler
Arrive(r) ==
    /\ pc[r] = "idle"
    /\ r <= env.reqs
    /\ \A q \in Reqs : q < r => pc[q] # "idle"   \* numbered as they arrive
    /\ \E path \in env.paths, apiKey \in env.headers, videoId \in env.videoIds :
          /\ req' = [req EXCEPT ![r] =
                [path |-> path, apiKey |-> apiKey,
                 videoId |-> IF path = TranscriptPath THEN videoId ELSE <<>>]]
          /\ IF Protected(path)
             THEN /\ pc' = [pc EXCEPT ![r] = Chain[1]]
                  /\ res' = res
             ELSE /\ pc' = [pc EXCEPT ![r] = "done"]
                  /\ res' = [res EXCEPT ![r] =
                        IF path = "/health" THEN HealthRes
                        ELSE IF path = "/api/agent" THEN AgentRes
                        ELSE NotFoundRes]
    /\ UNCHANGED <<env, API_KEY, now, store, rl, tempId, files, proc, err, out,
                   hist>>

\* authenticateApiKey: answer 500 or 401, or call next()
authenticateApiKey(r) ==
    /\ pc[r] = "auth"
    /\ LET verdict == AuthVerdict(API_KEY, req[r].apiKey)
       IN  IF verdict # NoRes
           THEN /\ pc' = [pc EXCEPT ![r] = "done"]
                /\ res' = [res EXCEPT ![r] = verdict]
                /\ hist' = hist
           ELSE /\ pc' = [pc EXCEPT ![r] = NextStage("auth")]
                /\ hist' = [hist EXCEPT ![r].authed = TRUE]
                /\ res' = res
    /\ UNCHANGED <<env, API_KEY, now, req, store, rl, tempId, files, proc, err, out>>

\* rateLimiter, up to the await of store.increment
rateLimiterIncrement(r) ==
    /\ pc[r] = "limit"
    /\ pc' = [pc EXCEPT ![r] = "decide"]
    /\ LET key == keyGenerator(req[r].apiKey)
           st == Increment(store, key, now)
       IN  /\ store' = st
           /\ rl' = [rl EXCEPT ![r] = st[key]]
           /\ hist' = [hist EXCEPT ![r].incAt = now,
                                    ![r].overlap = \E q \in Reqs \ {r} : pc[q] = "decide"]
    /\ UNCHANGED <<env, API_KEY, now, req, tempId, files, proc, err, out, res>>

\* rateLimiter, after the await: over the limit, or on to the route
rateLimiterDecide(r) ==
    /\ pc[r] = "decide"
    /\ IF rl[r].totalHits > maxRequests
       THEN /\ pc' = [pc EXCEPT ![r] = "done"]
            /\ res' = [res EXCEPT ![r] =
                 handler([NoRes EXCEPT
                     !.retryAfter = CeilDiv(rl[r].resetTime - now, 1000)])]
            /\ hist' = [hist EXCEPT ![r].denied = TRUE]
       ELSE /\ pc' = [pc EXCEPT ![r] = NextStage("limit")]
            /\ hist' = [hist EXCEPT ![r].admitted = TRUE]
            /\ res' = res
    /\ UNCHANGED <<env, API_KEY, now, req, store, rl, tempId, files, proc, err, out>>


\* the route handler up to its first await: the videoId check, then
\* getTranscript's token, its format check and the start of the command
route(r) ==
    /\ pc[r] = "route"
    /\ IF Len(Trim(req[r].videoId)) = 0
       THEN /\ pc' = [pc EXCEPT ![r] = "done"]
            /\ res' = [res EXCEPT ![r] = BadRequest(req[r].videoId)]
            /\ store' = Settle(store, keyGenerator(req[r].apiKey),
                               BadRequest(req[r].videoId).status)
            /\ UNCHANGED <<tempId, proc, err, hist>>
       ELSE \E token \in env.tokens :
            /\ IF ~IsValidVideoId(req[r].videoId)
               THEN /\ pc' = [pc EXCEPT ![r] = "catch"]
                    /\ err' = [err EXCEPT ![r] = MsgInvalidId]
                    /\ hist' = [hist EXCEPT ![r].cause = "invalid"]
                    /\ proc' = proc
               ELSE /\ pc' = [pc EXCEPT ![r] = "exec"]
                    /\ proc' = [proc EXCEPT ![r] =
                          [state |-> "running", start |-> now, wrote |-> FALSE]]
                    /\ hist' = [hist EXCEPT ![r].execs = @ + 1]
                    /\ err' = err
            /\ store' = store
            /\ tempId' = [tempId EXCEPT ![r] = token]
            /\ res' = res
    /\ UNCHANGED <<env, API_KEY, now, req, rl, files, out>>

\* the command writes its subtitle file, while exec waits for it or, when
\* it outlived the shell exec killed, at any time after
procWrite(r) ==
    /\ proc[r].state \in {"running", "orphaned"}
    /\ ~proc[r].wrote
    /\ \E content \in env.artifacts :
          files' = [files EXCEPT ![tempId[r]] = content]
    /\ proc' = [proc EXCEPT ![r].wrote = TRUE]
    /\ UNCHANGED <<env, API_KEY, now, pc, req, store, rl, tempId, err, out, res,
                   hist>>

\* the command exits 0: execAsync resolves, the metadata is parsed
execResolve(r) ==
    /\ pc[r] = "exec"
    /\ proc[r].state = "running"
    /\ pc' = [pc EXCEPT ![r] = "read"]
    /\ proc' = [proc EXCEPT ![r].state = "exited"]
    /\ \E stdout \in env.stdouts :
          /\ out' = [out EXCEPT ![r] =
                    [text |-> NoText,
                     title |-> VideoTitle(stdout, req[r].videoId),
                     duration |-> VideoDuration(stdout)]]
          /\ hist' = [hist EXCEPT ![r].stdout = stdout]
    /\ UNCHANGED <<env, API_KEY, now, req, store, rl, tempId, files, err, res>>

\* the command exits non-zero: execAsync rejects
execReject(r) ==
    /\ pc[r] = "exec"
    /\ proc[r].state = "running"
    /\ pc' = [pc EXCEPT ![r] = "catch"]
    /\ proc' = [proc EXCEPT ![r].state = "exited"]
    /\ \E msg \in env.failMsgs : err' = [err EXCEPT ![r] = msg]
    /\ hist' = [hist EXCEPT ![r].cause = "exit"]
    /\ UNCHANGED <<env, API_KEY, now, req, store, rl, tempId, files, out, res>>

\* what the kill signal of exec's timeout leaves of the command: the signal
\* goes to the /bin/sh that exec spawned, and yt-dlp ends with it only where
\* that shell replaced itself by the command instead of forking it
AfterKill == {"killed", "orphaned"}

\* 30 s have passed: exec kills its child and execAsync rejects
execTimedOut_noReject(r) ==
    /\ pc[r] = "exec"
    /\ proc[r].state = "running"
    /\ now - proc[r].start >= execTimeout
    /\ proc' = [proc EXCEPT ![r].state = "killed"]
    /\ UNCHANGED <<env, API_KEY, now, pc, req, store, rl, tempId, files, err,
                   out, res, hist>>

execTimedOut(r) ==
    /\ pc[r] = "exec"
    /\ proc[r].state = "running"
    /\ now - proc[r].start >= execTimeout
    /\ pc' = [pc EXCEPT ![r] = "catch"]
    /\ \E left \in AfterKill : proc' = [proc EXCEPT ![r].state = left]
    /\ err' = [err EXCEPT ![r] = MsgCommandFailed]
    /\ hist' = [hist EXCEPT ![r].cause = "timeout"]
    /\ UNCHANGED <<env, API_KEY, now, req, store, rl, tempId, files, out, res>>

\* readFile, JSON.parse and the extraction of the text
readFile(r) ==
    /\ pc[r] = "read"
    /\ LET content == files[tempId[r]]
       IN  IF content = NoFile
           THEN /\ pc' = [pc EXCEPT ![r] = "catch"]
                /\ err' = [err EXCEPT ![r] = MsgENOENT]
                /\ hist' = [hist EXCEPT ![r].cause = "enoent"]
                /\ out' = out
           ELSE IF content.kind = "malformed"
           THEN /\ pc' = [pc EXCEPT ![r] = "catch"]
                /\ err' = [err EXCEPT ![r] = MsgSyntaxError]
                /\ hist' = [hist EXCEPT ![r].cause = "malformed"]
                /\ out' = out
           ELSE IF content.kind = "null"
           THEN /\ pc' = [pc EXCEPT ![r] = "catch"]
                /\ err' = [err EXCEPT ![r] = MsgTypeError]
                /\ hist' = [hist EXCEPT ![r].cause = "malformed"]
                /\ out' = out
           ELSE /\ pc' = [pc EXCEPT ![r] = "unlink"]
                /\ out' = [out EXCEPT ![r].text = ExtractText(content)]
                /\ hist' = [hist EXCEPT ![r].doc = content]
                /\ err' = err
    /\ UNCHANGED <<env, API_KEY, now, req, store, rl, tempId, files, proc, res>>

\* the unlink of the try block, the empty-text check, and the 200 response
\* (getTranscript's locals end with the call)
unlinkAndReturn(r) ==
    /\ pc[r] = "unlink"
    /\ \E ok \in env.unlinkOk :
          /\ IF AwaitUnlink(ok) = "rejected"
             THEN /\ pc' = [pc EXCEPT ![r] = "catch"]
                  /\ err' = [err EXCEPT ![r] = MsgEPERM]
                  /\ hist' = [hist EXCEPT ![r].removed = Removal(ok),
                                           ![r].cause = "unlink"]
                  /\ res' = res
                  /\ store' = store
             ELSE IF IsEmptyText(out[r].text)
             THEN /\ pc' = [pc EXCEPT ![r] = "catch"]
                  /\ err' = [err EXCEPT ![r] = MsgNoTranscript]
                  /\ hist' = [hist EXCEPT ![r].removed = Removal(ok),
                                           ![r].cause = "empty"]
                  /\ res' = res
                  /\ store' = store
             ELSE /\ pc' = [pc EXCEPT ![r] = "done"]
                  /\ res' = [res EXCEPT ![r] =
                       [NoRes EXCEPT !.status = 200, !.text = out[r].text,
                                     !.title = out[r].title,
                                     !.duration = out[r].duration]]
                  /\ hist' = [hist EXCEPT ![r].removed = Removal(ok)]
                  /\ store' = Settle(store, keyGenerator(req[r].apiKey), 200)
                  /\ err' = err
          /\ files' = Unlink(files, tempId[r], ok)
    /\ out' = [out EXCEPT ![r] = NoOut]
    /\ UNCHANGED <<env, API_KEY, now, req, rl, tempId, proc>>

\* the catch block: unlink, rethrow; next(error) reaches the error middleware
catchAndFail_retry(r) ==
    /\ pc[r] = "catch"
    /\ hist[r].execs = 1
    /\ proc' = [proc EXCEPT ![r] =
              [state |-> "running", start |-> now, wrote |-> FALSE]]
    /\ hist' = [hist EXCEPT ![r].execs = @ + 1]
    /\ pc' = [pc EXCEPT ![r] = "exec"]
    /\ UNCHANGED <<env, API_KEY, now, req, store, rl, tempId, files, err, out,
                   res>>

catchAndFail(r) ==
    /\ pc[r] = "catch"
    /\ pc' = [pc EXCEPT ![r] = "done"]
    /\ \E ok \in env.unlinkOk :
          /\ files' = Unlink(files, tempId[r], ok)
          /\ hist' = [hist EXCEPT ![r].removed = Removal(ok)]
          /\ LET answer == ErrorHandler(IF AwaitUnlink(ok) = "rejected"
                                        THEN MsgEPERM
                                        ELSE CatchMessage(err[r]))
             IN  /\ res' = [res EXCEPT ![r] = answer]
                 /\ store' = Settle(store, keyGenerator(req[r].apiKey),
                                    answer.status)
    /\ err' = [err EXCEPT ![r] = <<>>]
    /\ out' = [out EXCEPT ![r] = NoOut]
    /\ UNCHANGED <<env, API_KEY, now, req, rl, tempId, proc>>

Next ==
    \/ Tick
    \/ \E r \in Reqs :
          \/ Arrive(r)
          \/ authenticateApiKey(r)
          \/ rateLimiterIncrement(r)
          \/ rateLimiterDecide(r)
          \/ route(r)
          \/ procWrite(r)
          \/ execResolve(r)
          \/ execReject(r)
          \/ execTimedOut(r)
          \/ readFile(r)
          \/ unlinkAndReturn(r)
          \/ catchAndFail(r)

\* the environments the specifications draw their inputs from
EnvAuth ==
    [reqs |-> AuthReqs, paths |-> {TranscriptPath},
     apiKeys |-> EnvValues, headers |-> HeaderValues,
     videoIds |-> {WellFormedId, <<"t","e","s","t","1","2","3">>}, tokens |-> {1}, artifacts |-> {DocHello},
     stdouts |-> {"info"}, failMsgs |-> {MsgCommandFailed},
     unlinkOk |-> {TRUE}, drain |-> FALSE]

EnvLimiter ==
    [reqs |-> LimiterReqs, paths |-> {TranscriptPath},
     apiKeys |-> {"key-A"}, headers |-> {"key-A"},
     videoIds |-> {WellFormedId},
     tokens |-> {1}, artifacts |-> {DocHello},
     stdouts |-> {"info"}, failMsgs |-> {MsgCommandFailed},
     unlinkOk |-> {TRUE}, drain |-> FALSE]

EnvFetch ==
    [reqs |-> FetchReqs, paths |-> {TranscriptPath},
     apiKeys |-> {"key-A"}, headers |-> {"key-A"},
     videoIds |-> VideoIds, tokens |-> Tokens, artifacts |-> Artifacts,
     stdouts |-> Stdouts, failMsgs |-> ExecFailMsgs,
     unlinkOk |-> BOOLEAN, drain |-> FALSE]

EnvNorm ==
    [reqs |-> 1, paths |-> {TranscriptPath},
     apiKeys |-> {"key-A"}, headers |-> {"key-A"},
     videoIds |-> {WellFormedId}, tokens |-> {1},
     artifacts |-> GeneratedDocs \cup {DocHello, DocSplit},
     stdouts |-> {"info"}, failMsgs |-> {MsgCommandFailed},
     unlinkOk |-> {TRUE}, drain |-> FALSE]

EnvRoutes ==
    [reqs |-> RouteReqs, paths |-> Paths,
     apiKeys |-> {None, "key-A"}, headers |-> {None, "key-A"},
     videoIds |-> {WellFormedId, <<"t","e","s","t","1","2","3">>, <<" ">>},
     tokens |-> {1}, artifacts |-> {DocHello, Malformed},
     stdouts |-> {"info"}, failMsgs |-> ExecFailMsgs,
     unlinkOk |-> {TRUE}, drain |-> FALSE]

\* a deployment whose secret is the word the key generator falls back to
EnvKeys ==
    [reqs |-> AuthReqs, paths |-> {TranscriptPath},
     apiKeys |-> {"unknown", "key-A"}, headers |-> {None, "unknown", "key-A"},
     videoIds |-> {WellFormedId}, tokens |-> {1}, artifacts |-> {DocHello},
     stdouts |-> {"info"}, failMsgs |-> {MsgCommandFailed},
     unlinkOk |-> {TRUE}, drain |-> FALSE]

\* requests that are followed to their answer, however late they come
EnvLive ==
    [reqs |-> FetchReqs, paths |-> {TranscriptPath},
     apiKeys |-> {"key-A"}, headers |-> {None, "key-A"},
     videoIds |-> {WellFormedId, <<"t","e","s","t","1","2","3">>, <<" ">>},
     tokens |-> {1},
     artifacts |-> {DocHello, [kind |-> "doc", events |-> << [segs |-> << <<" ">> >>] >>]},
     stdouts |-> {"info"}, failMsgs |-> {MsgCommandFailed},
     unlinkOk |-> BOOLEAN, drain |-> TRUE]

Init == InitWith(EnvAuth)
InitLimiter == InitWith(EnvLimiter)
InitFetch == InitWith(EnvFetch)
InitNorm == InitWith(EnvNorm)
InitRoutes == InitWith(EnvRoutes)
InitKeys == InitWith(EnvKeys)
InitLive == InitWith(EnvLive)

Spec == Init /\ [][Next]_vars
SpecLimiter == InitLimiter /\ [][Next]_vars
SpecFetch == InitFetch /\ [][Next]_vars
SpecNorm == InitNorm /\ [][Next]_vars
SpecRoutes == InitRoutes /\ [][Next]_vars
SpecKeys == InitKeys /\ [][Next]_vars

\* the event loop: a handler that is ready to run (its await has settled)
\* is run, the clock goes on, and exec's timer fires once its 30 s are over;
\* the command itself owes nothing, it may never exit
Ready(r) ==
    \/ pc[r] \in {"auth", "limit", "decide", "route", "read", "unlink", "catch"}
    \/ /\ pc[r] = "exec"
       /\ proc[r].state = "running"
       /\ now - proc[r].start >= execTimeout

\* the step of request r that the event loop owes it: r leaves its stage
Resume(r) ==
    /\ Ready(r)
    /\ \E stage \in {"limit", "decide", "route", "exec", "read", "unlink",
                      "catch", "done"} \ {pc[r]} :
          pc' = [pc EXCEPT ![r] = stage]

Fairness ==
    /\ WF_now(Tick)
    /\ \A r \in Reqs : WF_pc(Resume(r))

SpecLive == InitLive /\ [][Next]_vars /\ Fairness


\* ================================================================= claims
Past(r, stages) == pc[r] \notin ({"idle"} \cup stages)
KeyOf(r) == keyGenerator(req[r].apiKey)
Unauthorized == ErrorRes(401, "Invalid or missing API key")
Misconfigured == ErrorRes(500, "Internal server error")

\* C1: with the service secret configured, a request whose X-API-Key header
\* is absent or differs from the secret gets no further than the
\* authenticator and is answered 401 "Invalid or missing API key", whatever
\* its videoId.
C1_Unauthorized ==
    \A r \in Reqs :
        (Truthy(API_KEY) /\ Past(r, {"auth"}) /\ req[r].apiKey # API_KEY)
            => (pc[r] = "done" /\ res[r] = Unauthorized)

C1_Witness ==
    \E r, q \in Reqs :
        /\ Truthy(API_KEY)
        /\ req[r].apiKey = None /\ ~IsValidVideoId(req[r].videoId)
        /\ req[q].apiKey = "key-B" /\ IsValidVideoId(req[q].videoId)
        /\ res[r] = Unauthorized /\ res[q] = Unauthorized

\* C2: a request the authenticator rejects leaves the limiter alone: every
\* hit a window holds was made by a request that passed authentication, a
\* denied request shares its window with an authenticated request that holds
\* the window's admission, and a rejected request has no limiter result, no
\* token, no subprocess and so no artifact.
C2_RejectedLeavesNoTrace ==
    /\ \A k \in Keys :
          store[k].totalHits <=
              Cardinality({r \in Reqs : /\ hist[r].authed
                                        /\ Past(r, {"auth", "limit"})
                                        /\ KeyOf(r) = k})
    /\ \A r \in Reqs :
          hist[r].denied =>
              \E q \in Reqs \ {r} :
                  /\ hist[q].authed /\ KeyOf(q) = KeyOf(r)
                  /\ rl[q].totalHits = 1 /\ rl[q].resetTime = rl[r].resetTime
    /\ \A r \in Reqs :
          (Past(r, {"auth"}) /\ ~hist[r].authed) =>
              /\ rl[r] = NoClient /\ tempId[r] = 0
              /\ proc[r] = NoProc /\ hist[r].execs = 0

C2_Witness ==
    \E r, q \in Reqs :
        /\ r < q
        /\ res[r] = Unauthorized /\ req[r].apiKey = "key-B"
        /\ hist[q].admitted /\ rl[q].totalHits = 1

\* C3: with the service secret unconfigured (unset or empty), every request
\* is answered 500 "Internal server error" by the authenticator, whatever
\* credential it presents.
C3_Misconfigured ==
    \A r \in Reqs :
        (~Truthy(API_KEY) /\ Past(r, {"auth"}))
            => (pc[r] = "done" /\ res[r] = Misconfigured)

C3_Witness ==
    \E r, q \in Reqs :
        /\ API_KEY = None
        /\ req[r].apiKey \in {None, ""} /\ res[r] = Misconfigured
        /\ req[q].apiKey = "key-A" /\ res[q] = Misconfigured


Abs(n) == IF n < 0 THEN -n ELSE n

\* C4: under every interleaving of the limiter's two steps, no two requests
\* with the same credential are admitted in one window: two admitted requests
\* of one key belong to different windows, a window length or more apart.
C4_OneAdmissionPerWindow ==
    \A r, q \in Reqs :
        (r # q /\ hist[r].admitted /\ hist[q].admitted /\ KeyOf(r) = KeyOf(q))
            => /\ rl[r].resetTime # rl[q].resetTime
               /\ Abs(hist[r].incAt - hist[q].incAt) >= windowMs

\* two requests of one key were inside the limiter together; one was
\* admitted and the other denied
C4_Witness ==
    \E r, q \in Reqs :
        /\ r # q /\ KeyOf(r) = KeyOf(q)
        /\ hist[q].overlap /\ rl[r].resetTime = rl[q].resetTime
        /\ hist[r].admitted /\ hist[q].denied

\* C5: denied requests neither extend nor restart a window: a denied request
\* arrived less than one window length after the request that opened its
\* window and holds its admission, and that window still ends one window
\* length after it was opened; so the first request after the window has
\* elapsed is admitted, however many were denied meanwhile.
C5_AdmittedAfterWindow ==
    \A r \in Reqs :
        (Past(r, {"auth", "limit"}) /\ rl[r].totalHits > 1) =>
            \E q \in Reqs \ {r} :
                /\ KeyOf(q) = KeyOf(r) /\ Past(q, {"auth", "limit"})
                /\ rl[q].totalHits = 1
                /\ rl[q].resetTime = hist[q].incAt + windowMs
                /\ rl[r].resetTime = rl[q].resetTime
                /\ hist[q].incAt <= hist[r].incAt
                /\ hist[r].incAt < hist[q].incAt + windowMs

\* admitted, then denied inside the window, then admitted after it
C5_Witness ==
    \E a, d, b \in Reqs :
        /\ KeyOf(a) = KeyOf(d) /\ KeyOf(d) = KeyOf(b)
        /\ hist[a].admitted /\ hist[d].denied /\ hist[b].admitted
        /\ hist[a].incAt < hist[d].incAt /\ hist[d].incAt < hist[b].incAt
        /\ hist[b].incAt = hist[a].incAt + windowMs

\* C6: a request the limiter denies is answered 429 with the body
\* "Rate limit exceeded. Please try again later." and a Retry-After that is
\* a positive number of seconds, at most the window length.
C6_DeniedResponse ==
    \A r \in Reqs :
        hist[r].denied =>
            /\ pc[r] = "done"
            /\ res[r].status = 429
            /\ res[r].error = "Rate limit exceeded. Please try again later."
            /\ res[r].retryAfter \in 1..(windowMs \div 1000)
            /\ res[r].text = NoText

C6_Witness ==
    \E r \in Reqs : hist[r].denied /\ res[r].status = 429 /\ res[r].retryAfter = 30

\* C7 (as claimed): the Retry-After of a denied request is the time left in
\* the credential's window, in seconds.
C7_RetryAfterIsRemaining ==
    \A r \in Reqs :
        hist[r].denied =>
            res[r].retryAfter = CeilDiv(rl[r].resetTime - hist[r].incAt, 1000)

\* C8 (as claimed): an authenticated, admitted request whose videoId is not
\* 11 characters of [A-Za-z0-9_-] is answered 400.
C8_MalformedIs400 ==
    \A r \in Reqs :
        (pc[r] = "done" /\ hist[r].admitted /\ ~IsValidVideoId(req[r].videoId))
            => res[r].status = 400

\* C9 (as claimed): a fetch that ran into the 30 s timeout is answered
\* 504 "Request timeout".
C9_TimeoutIs504 ==
    \A r \in Reqs :
        (pc[r] = "done" /\ hist[r].cause = "timeout")
            => res[r] = ErrorRes(504, "Request timeout")

RECURSIVE WordsFrom(_, _)
WordsFrom(s, cur) ==
    LET done == IF cur = <<>> THEN <<>> ELSE <<cur>>
    IN  IF s = <<>> THEN done
        ELSE IF Head(s) \in WhiteSpace THEN done \o WordsFrom(Tail(s), <<>>)
        ELSE WordsFrom(Tail(s), Append(cur, Head(s)))

Words(s) == WordsFrom(s, <<>>)

\* the words separated by single spaces: what collapsing every whitespace
\* run and trimming leaves of a string with these words
Unwords(ws) ==
    LET cat[i \in 0..Len(ws)] ==
            IF i = 0 THEN <<>>
            ELSE IF i = 1 THEN ws[1] ELSE cat[i - 1] \o <<" ">> \o ws[i]
    IN  cat[Len(ws)]

Flatten(seqs) ==
    LET cat[i \in 0..Len(seqs)] ==
            IF i = 0 THEN <<>> ELSE cat[i - 1] \o seqs[i]
    IN  cat[Len(seqs)]

CuesOf(doc) == IF doc.events = None THEN <<>> ELSE doc.events
SegsOf(cue) == IF cue.segs = None THEN <<>> ELSE cue.segs
Utf8Of(seg) == IF seg = None THEN <<>> ELSE seg

\* the segments of one cue concatenated with nothing between them
CueText(cue) ==
    Flatten([i \in 1..Len(SegsOf(cue)) |-> Utf8Of(SegsOf(cue)[i])])

\* cue texts separated by one space, whitespace collapsed, trimmed
RefCueJoin(doc) ==
    LET cues == CuesOf(doc)
        spaced == [i \in 1..Len(cues) |-> CueText(cues[i]) \o <<" ">>]
    IN  Unwords(Words(Flatten(spaced)))

\* the words of every segment, cue after cue, separated by single spaces
RefSegJoin(doc) ==
    LET cues == CuesOf(doc)
        segWords(cue) ==
            Flatten([i \in 1..Len(SegsOf(cue)) |-> Words(Utf8Of(SegsOf(cue)[i]))])
    IN  Unwords(Flatten([i \in 1..Len(cues) |-> segWords(cues[i])]))

\* the transcript text a request holds or has sent
Produced(r) ==
    IF pc[r] = "unlink" THEN out[r].text
    ELSE IF req[r].path = TranscriptPath /\ res[r].status = 200 THEN res[r].text
    ELSE None

\* C13 (as claimed): the transcript text is the reference normalization in
\* which the segments of one cue are concatenated with no separator and one
\* space is put between consecutive cues, whitespace collapsed and trimmed.
C13_CueJoin ==
    \A r \in Reqs : Produced(r) # None => Produced(r) = RefCueJoin(hist[r].doc)

\* C13 (amended): the transcript text is the non-empty segments of all cues
\* in document order with one space between every two consecutive segments,
\* those of one cue included, every whitespace run collapsed to one space and
\* the result trimmed.
C13_SegJoin ==
    \A r \in Reqs : Produced(r) # None => Produced(r) = RefSegJoin(hist[r].doc)

\* a 200 for a document whose only cue has two segments of one word
C13_Witness ==
    \E r \in Reqs :
        /\ pc[r] = "done" /\ res[r].status = 200 /\ hist[r].doc = DocSplit
        /\ res[r].text = <<"H","e"," ","y">>


\* C14: the produced text has no whitespace at either end and no two
\* adjacent whitespace characters, collapsing and trimming it again returns
\* it unchanged, and two requests that read the same document hold the same
\* text.
C14_NormalizedOutput ==
    \A r \in Reqs :
        Produced(r) # None =>
            LET t == Produced(r)
            IN  /\ t # <<>> => (t[1] \notin WhiteSpace /\ t[Len(t)] \notin WhiteSpace)
                /\ \A i \in 1..(Len(t) - 1) :
                       ~(t[i] \in WhiteSpace /\ t[i + 1] \in WhiteSpace)
                /\ Trim(CollapseWs(t)) = t
                /\ \A q \in Reqs :
                       (Produced(q) # None /\ hist[q].doc = hist[r].doc)
                           => Produced(q) = t

\* segments "Hi", " " and "a\nb" have become "Hi a b"
C14_Witness ==
    \E r \in Reqs :
        /\ pc[r] = "done" /\ res[r].status = 200 /\ hist[r].doc = DocHello
        /\ res[r].text = <<"H","i"," ","a"," ","b">>

\* C15: a 200 of the transcript endpoint has a non-empty body, and a
\* document without a single non-whitespace character in its segments is
\* answered 404 'No transcript available'.
C15_NoEmpty200 ==
    \A r \in Reqs :
        req[r].path = TranscriptPath =>
            /\ res[r].status = 200 => res[r].text # <<>>
            /\ (pc[r] = "done" /\ hist[r].doc # NoFile
                  /\ RefSegJoin(hist[r].doc) = <<>>)
                   => res[r] = ErrorRes(404, "No transcript available")

\* a document whose segments are a line break and an empty string, answered
\* 404 after the empty-text check
C15_Witness ==
    \E r \in Reqs :
        /\ pc[r] = "done" /\ res[r].status = 404 /\ hist[r].cause = "empty"
        /\ hist[r].doc =
              [kind |-> "doc", events |-> << [segs |-> << <<"\n">>, <<>> >>] >>]


\* how often the character c occurs in s
Count(s, c) == Cardinality({i \in 1..Len(s) : s[i] = c})

\* the caption text of a document: all segment texts in order
CaptionText(doc) ==
    LET cues == CuesOf(doc)
    IN  Flatten([i \in 1..Len(cues) |-> CueText(cues[i])])

\* C18 (as claimed): the transcript body keeps the line breaks of the
\* caption text.
C18_NewlinesPreserved ==
    \A r \in Reqs :
        Produced(r) # None =>
            Count(Produced(r), "\n") = Count(CaptionText(hist[r].doc), "\n")


\* C16: a request for /health is answered 200 {"status":"healthy"} in the
\* step in which it arrives, whatever its X-API-Key and whatever API_KEY
\* is, and that step changes neither the limiter's store, nor a subprocess,
\* nor a file, nor any other request.
C16_HealthIsPure ==
    [][\A r \in Reqs :
          (pc[r] = "idle" /\ pc'[r] # "idle" /\ req'[r].path = "/health") =>
              /\ pc'[r] = "done" /\ res'[r] = HealthRes
              /\ store' = store /\ rl' = rl
              /\ proc' = proc /\ tempId' = tempId /\ files' = files
              /\ \A q \in Reqs \ {r} : pc'[q] = pc[q] /\ res'[q] = res[q]]_vars

\* /health answered without a header while another request's command runs
\* and the limiter holds that request's hit
C16_Witness ==
    \E r, q \in Reqs :
        /\ req[r].path = "/health" /\ req[r].apiKey = None
        /\ pc[r] = "done" /\ res[r] = HealthRes
        /\ proc[q].state = "running" /\ store[keyGenerator(req[q].apiKey)].totalHits = 1

\* /health answered while the service secret is not configured
C16_WitnessUnconfigured ==
    \E r \in Reqs :
        /\ req[r].path = "/health" /\ ~Truthy(API_KEY)
        /\ pc[r] = "done" /\ res[r] = HealthRes

\* the messages a response's error body is taken from
ErrorBodies ==
    { "Video ID is required", "Invalid or missing API key",
      "No transcript available", "Rate limit exceeded. Please try again later.",
      "Request timeout", "Internal server error", "Route not found" }

MalformedDone(r) ==
    /\ pc[r] = "done" /\ req[r].path = TranscriptPath
    /\ ~IsValidVideoId(req[r].videoId)

\* C19 (as claimed): a request with a malformed videoId is answered 400
\* whatever its credential, and never reaches the limiter.
C19_ValidationFirst ==
    \A r \in Reqs :
        MalformedDone(r) => (res[r].status = 400 /\ rl[r] = NoClient)

\* C19 (amended): the videoId is looked at last. A request with a malformed
\* videoId is answered 500 when the service secret is not configured, 401
\* when its credential is absent or wrong (in both cases without reaching
\* the limiter) and 429 when its credential is over its limit; its videoId
\* is examined only after it was authenticated, counted and admitted.
C19_ValidationLast ==
    \A r \in Reqs :
        /\ MalformedDone(r) =>
              /\ ~Truthy(API_KEY) => (res[r] = Misconfigured /\ rl[r] = NoClient)
              /\ (Truthy(API_KEY) /\ req[r].apiKey # API_KEY)
                    => (res[r] = Unauthorized /\ rl[r] = NoClient)
              /\ (Truthy(API_KEY) /\ req[r].apiKey = API_KEY
                    /\ rl[r].totalHits > maxRequests)
                    => (res[r].status = 429 /\ hist[r].cause = "none")
        /\ (hist[r].cause = "invalid" \/ res[r].status = 400) =>
              /\ Truthy(API_KEY) /\ req[r].apiKey = API_KEY
              /\ rl[r].totalHits >= 1 /\ rl[r].totalHits <= maxRequests

\* test123 answered 401 for a wrong key, and examined for the right key
\* after the limiter counted the request
C19_Witness ==
    \E r, q \in Reqs :
        /\ MalformedDone(r) /\ req[r].apiKey = "key-B" /\ res[r] = Unauthorized
        /\ MalformedDone(q) /\ hist[q].cause = "invalid" /\ rl[q].totalHits = 1

\* test123 answered 429 for a key that is over its limit
C19_WitnessLimited ==
    \E r \in Reqs : MalformedDone(r) /\ res[r].status = 429

\* C20: a subprocess is started only for a request whose credential the
\* authenticator accepted and which the limiter counted and admitted, the
\* count being taken before the start; admission comes after authentication;
\* a request answered 401, 429 or 500 for a missing secret has started none.
C20_AuthAdmitFetch ==
    \A r \in Reqs :
        /\ (hist[r].execs > 0 \/ proc[r] # NoProc \/ tempId[r] # 0) =>
              /\ Truthy(API_KEY) /\ req[r].apiKey = API_KEY
              /\ hist[r].authed /\ hist[r].admitted
              /\ rl[r].totalHits >= 1 /\ rl[r].totalHits <= maxRequests
        /\ (rl[r] # NoClient \/ hist[r].admitted) =>
              (hist[r].authed /\ Truthy(API_KEY) /\ req[r].apiKey = API_KEY)
        /\ (res[r].status \in {401, 429} \/ (res[r] = Misconfigured /\ ~Truthy(API_KEY))) =>
              (hist[r].execs = 0 /\ proc[r] = NoProc /\ tempId[r] = 0)

\* one request's command is running while a second one with the same key
\* has been answered 429 without starting one
C20_Witness ==
    \E r, q \in Reqs :
        /\ proc[r].state = "running" /\ hist[r].admitted /\ rl[r].totalHits = 1
        /\ pc[q] = "done" /\ res[q].status = 429 /\ proc[q] = NoProc


\* 11 characters, each a letter, a digit, "_" or "-", spelled out
IdAlphabet ==
    { "a","b","c","d","e","f","g","h","i","j","k","l","m","n","o","p","q",
      "r","s","t","u","v","w","x","y","z",
      "A","B","C","D","E","F","G","H","I","J","K","L","M","N","O","P","Q",
      "R","S","T","U","V","W","X","Y","Z",
      "0","1","2","3","4","5","6","7","8","9","_","-" }

WellFormed(v) == Len(v) = 11 /\ {v[i] : i \in 1..Len(v)} \subseteq IdAlphabet

\* C21: a request that has started the external command has a videoId of
\* 11 characters of [A-Za-z0-9_-], and a request with any other videoId has
\* started no command and its command has written no artifact.
C21_WellFormedCommand ==
    \A r \in Reqs :
        /\ (hist[r].execs > 0 \/ proc[r] # NoProc) => WellFormed(req[r].videoId)
        /\ (req[r].path = TranscriptPath /\ ~WellFormed(req[r].videoId)) =>
              (hist[r].execs = 0 /\ proc[r] = NoProc /\ hist[r].doc = NoFile)

\* test123, seven characters of the alphabet, refused before the command
C21_Witness ==
    \E r \in Reqs :
        /\ pc[r] = "done" /\ req[r].videoId = <<"t","e","s","t","1","2","3">>
        /\ hist[r].cause = "invalid" /\ hist[r].execs = 0 /\ proc[r] = NoProc


\* C22 (as claimed): once a request has failed with a timeout none of its
\* processes is running, and after its cleanup removed the artifact the
\* file stays away.
C22_KilledOnTimeout ==
    \A r \in Reqs :
        hist[r].cause = "timeout" =>
            /\ proc[r].state = "killed"
            /\ (pc[r] = "done" /\ hist[r].removed = "done")
                  => files[tempId[r]] = NoFile


\* C23 (as claimed): the limiter's store changes only in the bucket of the
\* request that is being counted, and the bucket "unknown" is never the
\* bucket of a request that carries a credential.
C23_ReservedBucket ==
    /\ \A r \in Reqs :
          (Past(r, {"auth", "limit"}) /\ rl[r] # NoClient /\ req[r].apiKey # None)
              => KeyOf(r) # "unknown"
    /\ \A k \in Keys :
          store[k] # NoClient =>
              \E r \in Reqs : rl[r] # NoClient /\ KeyOf(r) = k


\* C24: when the command's output has no JSON object, or one that does not
\* parse, the request goes on to read the artifact with the title
\* "YouTube Video <videoId>" and the duration 0, and whatever the output
\* was, a request whose command exited normally ends with 200 exactly when
\* the artifact is a document with text, and with 404 otherwise.
C24_MetadataNonFatal ==
    \A r \in Reqs :
        /\ hist[r].stdout \in {"nomatch", "unparsable"} =>
              /\ pc[r] \in {"read", "unlink"} =>
                    /\ out[r].title = <<"YouTube Video ">> \o req[r].videoId
                    /\ out[r].duration = 0
              /\ res[r].status = 200 =>
                    /\ res[r].title = <<"YouTube Video ">> \o req[r].videoId
                    /\ res[r].duration = 0
        /\ (hist[r].stdout # "none" /\ pc[r] = "done") =>
              /\ res[r].status \in {200, 404}
              /\ res[r].status = 200 <=>
                    (hist[r].doc # NoFile /\ RefSegJoin(hist[r].doc) # <<>>)

\* a 200 with the placeholder metadata after output that did not parse
C24_Witness ==
    \E r \in Reqs :
        /\ pc[r] = "done" /\ hist[r].stdout = "unparsable"
        /\ res[r].status = 200 /\ res[r].duration = 0
        /\ res[r].title = <<"YouTube Video ">> \o WellFormedId


\* C25: whether the removal of the artifact fails or not, a request that
\* entered getTranscript is answered 200 with the transcript when it read a
\* document with text, and 404 "No transcript available" otherwise.
C25_CleanupNeverSurfaces ==
    \A r \in Reqs :
        (pc[r] = "done" /\ tempId[r] # 0) =>
            IF hist[r].doc # NoFile /\ RefSegJoin(hist[r].doc) # <<>>
            THEN res[r].status = 200 /\ res[r].text = RefSegJoin(hist[r].doc)
            ELSE res[r] = ErrorRes(404, "No transcript available")

\* a failed removal on the success path, answered 200
C25_Witness ==
    \E r \in Reqs :
        /\ pc[r] = "done" /\ res[r].status = 200
        /\ hist[r].removed = "failed" /\ files[tempId[r]] # NoFile

\* a failed removal in the catch block after the empty-text check
C25_WitnessEmpty ==
    \E r \in Reqs :
        /\ pc[r] = "done" /\ hist[r].removed = "failed"
        /\ hist[r].cause = "empty" /\ res[r].status = 404


\* the ways a fetch fails once its command was started
FetchFailures == {"timeout", "exit", "enoent", "malformed", "empty"}

\* C26: no request starts the external command more than once, and a
\* request whose fetch failed is on its way to the caller or answered, with
\* one start behind it and no command of its own being waited for.
C26_NoRetry ==
    \A r \in Reqs :
        /\ hist[r].execs <= 1
        /\ hist[r].cause \in FetchFailures =>
              /\ hist[r].execs = 1
              /\ pc[r] \in {"catch", "done"}
              /\ proc[r].state # "running"
              /\ pc[r] = "done" => res[r].status # 200

\* a timeout and a non-zero exit, each answered after a single start
C26_Witness ==
    \E r \in Reqs :
        /\ pc[r] = "done" /\ hist[r].cause \in {"timeout", "exit"}
        /\ hist[r].execs = 1 /\ res[r].status = 404


\* C27: when the limiter decides on a request while an admitted request of
\* the same credential and the same window has already been answered 400,
\* 404, 500 or 504, the decision is 429: the answered request's hit is
\* still in the window.
C27_FailuresAreCounted ==
    [][\A q \in Reqs :
          (/\ pc[q] = "decide" /\ pc'[q] # "decide"
           /\ \E r \in Reqs \ {q} :
                 /\ pc[r] = "done" /\ hist[r].admitted
                 /\ res[r].status \in {400, 404, 500, 504}
                 /\ KeyOf(r) = KeyOf(q)
                 /\ rl[r].resetTime = rl[q].resetTime
                 /\ hist[r].incAt <= hist[q].incAt)
          => (pc'[q] = "done" /\ res'[q].status = 429)]_vars

\* a second request counted after the first was answered 404, denied
C27_Witness ==
    \E r, q \in Reqs :
        /\ r # q /\ KeyOf(r) = KeyOf(q)
        /\ pc[r] = "done" /\ hist[r].admitted /\ res[r].status = 404
        /\ pc[q] = "done" /\ res[q].status = 429 /\ rl[q].totalHits = 2
        /\ rl[r].resetTime = rl[q].resetTime /\ hist[q].incAt > hist[r].incAt

\* the same after a 400 for a blank videoId
C27_WitnessBadRequest ==
    \E r, q \in Reqs :
        /\ r # q /\ KeyOf(r) = KeyOf(q)
        /\ pc[r] = "done" /\ hist[r].admitted /\ res[r].status = 400
        /\ pc[q] = "done" /\ res[q].status = 429


C29_AnsweredOnce ==
    /\ \A r \in Reqs : (pc[r] # "idle") ~> (pc[r] = "done" /\ res[r].status # 0)
    /\ [][\A r \in Reqs :
             pc[r] = "done" => (pc'[r] = "done" /\ res'[r] = res[r])]_vars
    /\ [](\A r \in Reqs :
             (pc[r] = "done" /\ hist[r].admitted)
                 => res[r].status \in {200, 400, 404, 500, 504})

\* a request whose command was still running after 30 s, answered
C29_Witness ==
    \E r \in Reqs :
        /\ pc[r] = "done" /\ hist[r].cause = "timeout" /\ hist[r].admitted
        /\ now >= proc[r].start + execTimeout /\ res[r].status = 404


\* C30: with one secret, a 30 s window of one request and a 30 s command
\* timeout, no two requests have their command running at the same time.
C30_OneFetchInFlight ==
    \A r, q \in Reqs :
        (proc[r].state = "running" /\ proc[q].state = "running") => r = q

====
